---- MODULE Spec2Model ----
(***************************************************************************)
(* Model of the multisig co-signing bot: MultisigCosignatory               *)
(* (multisig-cosignatory.js), the parts of BlocksAuditor                   *)
(* (blocks-auditor.js) its connect callback runs, and the helpers of the   *)
(* blockchain service (service.js) the signing pipeline calls.             *)
(*                                                                         *)
(* Node.js runs one callback at a time, so every action below is one       *)
(* callback run to completion; requests in flight (store lookups, the      *)
(* announce, the unconfirmed-transactions pull, a connecting socket) are    *)
(* state, and their continuations are separate actions.                     *)
(***************************************************************************)
EXTENDS Integers, Sequences, FiniteSets, TLC

\* ------------------------------------------------------------------ bounds
MaxTasks == 2      \* invocations of automaticTransactionSigningHandler
MaxConnects == 4   \* sockets created by connectBlockchainSocket
MaxPolls == 1      \* runs of websocketFallbackHandler
MaxResp == 2       \* length of one unconfirmed-transactions response
MaxMosaics == 2    \* length of the mosaics list of a transfer
MaxTimers == 2     \* staleness intervals of registerBlockDelayAuditor armed at once
MaxLookups == 2    \* NEMBlockHeight lookups and saves in flight, together
MaxTime == 10      \* minutes the clock runs
MaxHeightPulls == 1 \* chain.height requests of the auditors in flight
MaxStack == 3      \* nested calls the call stack of the engine holds

\* ------------------------------------------------- program constants
multisigTransaction == 4100   \* nem.model.transactionTypes.multisigTransaction
transferTransaction == 257    \* nem.model.transactionTypes.transfer
XemDivisibility == 6          \* default divisibility of getTransactionAmount
Undefined == 0 - 1            \* the value of a property an object lacks
StaleMinutes == 5             \* maximum age of the consulted NEMBlockHeight
ClockStep == 5                \* minutes between two readings of the clock

\* ------------------------------------------------------------ amounts
\* A JavaScript number n is kept exactly as [w |-> whole, u |-> millionths],
\* n = w + u / 10^6, so that amount / 10^6 * quantity needs no rounding.
Million == 1000000

Num(w, u) == [w |-> w, u |-> u]

Zero == Num(0, 0)

NumAdd(a, b) ==
    LET s == a.u + b.u
    IN  Num(a.w + b.w + (s \div Million), s % Million)

NumGT(a, b) == a.w > b.w \/ (a.w = b.w /\ a.u > b.u)

NumGE(a, b) == a = b \/ NumGT(a, b)

RECURSIVE Pow10(_)
Pow10(n) == IF n = 0 THEN 1 ELSE 10 * Pow10(n - 1)

\* (amount / 10^divisibility) * quantity, for divisibility <= 6: the whole
\* part of the multiplier and its remainder are multiplied separately, so
\* that no intermediate value leaves the range of the integers
ScaledProduct(amount, quantity, divisibility) ==
    LET d == Pow10(divisibility)
        p == (amount % d) * quantity
    IN  NumAdd(Num((amount \div d) * quantity, 0),
               Num(p \div d, (p % d) * (Million \div d)))

\* ------------------------------------------------------- configuration
\* Addresses are sequences of characters, so that replace(/-/g, '') is a
\* computation and not the identity.
AddrM == <<"T", "M">>
AddrO == <<"T", "O">>
AddrNone == <<"T", "?">>

Conf(acceptFrom, dailyAmount, privateKeyValid) ==
    [acceptFrom |-> acceptFrom, dailyAmount |-> dailyAmount,
     privateKeyValid |-> privateKeyValid, multisigAddress |-> AddrM]

AcceptString == [isString |-> TRUE,  str |-> "k1", list |-> << >>]
AcceptList == [isString |-> FALSE, str |-> "",   list |-> <<"k2", "k1">>]

\* the configurations of the model: both shapes of the allow-list, no
\* ceiling and two ceilings, a valid and an invalid private key
ConfChoices ==
    { Conf(AcceptString, 0, TRUE), Conf(AcceptString, 3, TRUE),
      Conf(AcceptList, 2, TRUE), Conf(AcceptList, 3, TRUE),
      Conf(AcceptList, 3, FALSE) }

\* configurations without a ceiling: bot.sign.dailyAmount zero and negative
NoCeilingConfs == { Conf(AcceptString, 0, TRUE), Conf(AcceptString, -1, TRUE) }

\* String.prototype.replace(/-/g, '')
StripDashes(addr) == SelectSeq(addr, LAMBDA c : c # "-")

\* nem.model.address.toAddress(publicKey, networkId): the SDK derives one
\* address, without dashes, from each public key.
toAddress(pubKey) ==
    CASE pubKey = "pkM" -> AddrM
      [] pubKey = "pkO" -> AddrO
      [] OTHER -> AddrNone

\* --------------------------------------------- transactionMetaDataPair
\* meta: "" stands for an absent member.  The pull returns {data: hash},
\* the push topic returns {hash: {data}, innerHash: {data}}.
Hashes == {"H1", "H2"}

NoMosaics == << >>

NoTrans == [type |-> Undefined, signer |-> "", amount |-> 0, mosaics |-> NoMosaics]

MultisigPair(m, s, k, a) ==
    [meta |-> m,
     transaction |-> [type |-> multisigTransaction, signer |-> s, amount |-> 0,
                      mosaics |-> NoMosaics,
                      otherTrans |-> [type |-> transferTransaction, signer |-> k,
                                      amount |-> a, mosaics |-> NoMosaics]]]

TransferPair(m, s, a) ==
    [meta |-> m,
     transaction |-> [type |-> transferTransaction, signer |-> s, amount |-> a,
                      mosaics |-> NoMosaics, otherTrans |-> NoTrans]]

MetaH1 == [hash |-> "", data |-> "H1", innerHash |-> ""]
MetaH2 == [hash |-> "H2", data |-> "", innerHash |-> ""]
MetaH2H1 == [hash |-> "H2", data |-> "", innerHash |-> "H1"]

\* The transactions of the model: for the listed cosignatory and the multisig
\* account, every hash shape and amount; for an unlisted cosignatory or
\* another account, every amount and account.
MultisigPairs ==
    { MultisigPair(MetaH1, "k1", "pkM", 2), MultisigPair(MetaH2H1, "k1", "pkM", 2),
      MultisigPair(MetaH2, "k1", "pkM", 0), MultisigPair(MetaH2, "k1", "pkM", 2),
      MultisigPair(MetaH1, "kx", "pkM", 2), MultisigPair(MetaH1, "kx", "pkO", 0),
      MultisigPair(MetaH1, "k1", "pkO", 2) }

TransferPairs ==
    { TransferPair(MetaH1, "k1", 2), TransferPair(MetaH2, "k1", 2) }

Pairs == MultisigPairs \cup TransferPairs

NoPair == [meta |-> [hash |-> "", data |-> "", innerHash |-> ""],
           transaction |-> [type |-> Undefined, signer |-> "", amount |-> 0,
                            mosaics |-> NoMosaics, otherTrans |-> NoTrans]]

\* obj.type: the member when the object has one, undefined otherwise
TypeOf(obj) == IF "type" \in DOMAIN obj THEN obj.type ELSE Undefined

\* ------------------------------------------------ service.js helpers
getTransactionHash(transactionMetaDataPair) ==
    LET meta == transactionMetaDataPair.meta
        trxHash == IF meta.hash # "" THEN meta.hash ELSE meta.data
    IN  IF meta.innerHash # ""
        THEN meta.innerHash
        ELSE trxHash

LookupNS == "nem"
LookupMos == "xem"

RECURSIVE FirstLookupMosaicByName(_, _)
FirstLookupMosaicByName(mosaics, i) ==
    IF i > Len(mosaics) THEN 0
    ELSE IF mosaics[i].mosaicId.name = LookupMos
         THEN i
         ELSE FirstLookupMosaicByName(mosaics, i + 1)

RECURSIVE FirstLookupMosaic(_, _)
FirstLookupMosaic(mosaics, i) ==
    IF i > Len(mosaics) THEN 0
    ELSE IF /\ mosaics[i].mosaicId.namespaceId = LookupNS
            /\ mosaics[i].mosaicId.name = LookupMos
         THEN i
         ELSE FirstLookupMosaic(mosaics, i + 1)

getTransactionAmount(transactionMetaDataPair) ==
    LET content == transactionMetaDataPair.transaction
        isMultiSig == content.type = multisigTransaction
        realContent == IF isMultiSig THEN content.otherTrans ELSE content
        isMosaic == Len(realContent.mosaics) > 0
        i == FirstLookupMosaic(realContent.mosaics, 1)
    IN  IF isMosaic
        THEN IF i = 0 THEN Zero
             ELSE ScaledProduct(realContent.amount, realContent.mosaics[i].quantity,
                                XemDivisibility)
        ELSE Num(realContent.amount, 0)

\* ------------------------------------- inputs of getTransactionAmount
Mosaic(ns, name, quantity) ==
    [mosaicId |-> [namespaceId |-> ns, name |-> name], quantity |-> quantity]

\* the target asset nem:xem and two assets sharing one half of its identifier
MosaicChoices ==
    { Mosaic(id[1], id[2], q) :
        id \in {<<"nem", "xem">>, <<"nem", "gold">>, <<"dim", "xem">>},
        q \in {1, 2000000} }

MosaicLists == UNION { [1..n -> MosaicChoices] : n \in 0..MaxMosaics }

RawAmounts == {0, 2, 3, 5000000}

\* a transfer, alone or as the inner transaction of a multisig transaction
TransferWith(a, ms) ==
    [meta |-> MetaH1,
     transaction |-> [type |-> transferTransaction, signer |-> "pkM", amount |-> a,
                      mosaics |-> ms, otherTrans |-> NoTrans]]

MultisigWith(a, ms) ==
    [meta |-> MetaH1,
     transaction |-> [type |-> multisigTransaction, signer |-> "k1", amount |-> 0,
                      mosaics |-> NoMosaics,
                      otherTrans |-> [type |-> transferTransaction, signer |-> "pkM",
                                      amount |-> a, mosaics |-> ms]]]

AmountPairs ==
    { TransferWith(a, ms) : a \in RawAmounts, ms \in MosaicLists }
        \cup { MultisigWith(a, ms) : a \in RawAmounts, ms \in MosaicLists }

\* ------------------------------------------------- nodes of the network
\* nem.nodes (a list of hosts; the port follows its host) and the NEM_HOST
\* variable of the environment, "" when it is not set
NodeConf(nodes, envHost) == [nodes |-> nodes, envHost |-> envHost]

\* two and three hosts; NEM_HOST unset, set to the last host of the list and
\* set to a host the list does not hold
NodeConfChoices ==
    { NodeConf(<<"h1", "h2">>, ""), NodeConf(<<"h1", "h2">>, "h2"),
      NodeConf(<<"h1", "h2", "h3">>, ""), NodeConf(<<"h1", "h2", "h3">>, "hx") }

InitialHostDefault(nc) == "localhost"

\* process.env['NEM_HOST'] || conf_.nem.nodes[0].host
InitialHost(nc) == IF nc.envHost # "" THEN nc.envHost ELSE nc.nodes[1]

\* heights the node reports
Heights == {1000, 1001}

\* readings of the clock
Times == {t \in 0..MaxTime : t % ClockStep = 0}

\* NEMBlockHeight documents of the module; a collection or a set of requests
\* is a bag of documents, [BlockDocs -> Nat]
BlockDocs == [blockHeight : Heights, createdAt : Times]

NoDocs == [d \in BlockDocs |-> 0]

\* ------------------------------------------------------------- state
VARIABLES
    conf,            \* bot.sign.* of the configuration file, fixed at start
    nodeConf,        \* nem.nodes of the configuration file and NEM_HOST
    nemHost,         \* blockchain_.node_.host, the active endpoint
    now,             \* new Date().valueOf(), in minutes
    blockHeights,    \* the NEMBlockHeight collection
    bkFinds,         \* NEMBlockHeight.findOne(bkQuery) lookups in flight
    bkSaves,         \* block.save() requests in flight
    staleReads,      \* intervals whose store read of the staleness check is in
                     \* flight; the store answers within the 10 minutes of
                     \* an interval, so no interval has two reads in flight
    lastCheck,       \* the last staleness check that read the store: whether
                     \* it found a document, and the age of that document
    settleTimers,    \* pending setTimeout(autoSwitchSocketNode, 3000)
    disconnects,     \* disconnectBlockchainSocket continuations pending
    picking,         \* the do/while loop of autoSwitchSocketNode is running
    hasDisconnect,   \* typeof module.disconnectBlockchainSocket != 'undefined'
    nemsocket_,      \* the module's current socket, 0 for null
    sockState,       \* state of every socket created so far
    subs,            \* <<socket, topic>>: listeners registered by subscribeWS
    aliveIntervals,  \* the intervals of registerBlockDelayAuditor, each with
                     \* the socket of its auditor
    heightPulls,     \* chain.height requests of the auditor in flight
    fallbackInterval,\* the 30 s interval of connectFallbackListener is armed
    pullsInFlight,   \* account.transactions.unconfirmed requests in flight
    lastPoll,        \* what the last pull continuation did with its response
    tasks,           \* invocations of automaticTransactionSigningHandler
    signedTrxs,      \* the NEMSignedTransaction collection
    announced,       \* transaction.announce calls made, per transaction hash
    amountEval,      \* the last call of getTransactionAmount and its result
    signCall,        \* the last call of signTransaction by another caller
                     \* than the handler, and how it returned
    subscribing      \* the nested calls of subscribeToBlockUpdates that
                     \* are running, and the socket of their auditor

vars == <<conf, hasDisconnect, nodeConf, nemHost, now, blockHeights, bkFinds,
          bkSaves, staleReads, lastCheck, settleTimers, disconnects, picking, nemsocket_,
          sockState, subs, aliveIntervals, heightPulls, fallbackInterval,
          pullsInFlight, lastPoll, tasks, signedTrxs, announced, amountEval,
          signCall, subscribing>>

confVars == <<conf, hasDisconnect, nodeConf>>

\* the state of BlocksAuditor and of the endpoint of the service
storeVars == <<blockHeights, bkFinds, bkSaves>>

switchVars == <<nemHost, settleTimers, disconnects, picking>>

auditVars == <<now, storeVars, staleReads, lastCheck, switchVars>>

socketVars == <<nemsocket_, sockState, subs, aliveIntervals, heightPulls>>

fallbackVars == <<fallbackInterval, pullsInFlight, lastPoll>>

pipelineVars == <<tasks, signedTrxs, announced>>

\* calls followed one at a time
evalVars == <<amountEval, signCall, subscribing>>

Sockets == 1..MaxConnects

TaskIds == 1..MaxTasks

ErrorsUri == "/errors"
BlocksUri == "/blocks/new"
UnconfirmedUri == "/unconfirmed/"   \* "/unconfirmed/" + getBotSignMultisigWallet()

\* pc: the request the invocation waits for; out: how it ended.  late and res
\* record what the invocation met: a stored document for its hash when it was
\* called, the answer of the announce.
IdleTask == [pc |-> "idle", pair |-> NoPair, out |-> "", late |-> FALSE, res |-> ""]

NoEval == [called |-> FALSE, pair |-> NoPair, result |-> Zero]

NoSignCall == [called |-> FALSE, pair |-> NoPair, threw |-> ""]

Timers == 1..MaxTimers

NoTimer == [st |-> "none", sock |-> 0]

NoBlock == [blockHeight |-> 0, createdAt |-> 0]

NoCheck == [found |-> FALSE, age |-> 0]

NotPicking == [active |-> FALSE, currentHost |-> ""]

NotSubscribing == [depth |-> 0, sock |-> 0, pc |-> ""]

\* the state after construction of the service and of the module, for a
\* given configuration
InitState ==
    /\ nemHost = InitialHost(nodeConf)
    /\ now = 0
    /\ blockHeights = NoDocs
    /\ bkFinds = [h \in Heights |-> 0]
    /\ bkSaves = NoDocs
    /\ staleReads = {}
    /\ lastCheck = NoCheck
    /\ settleTimers = 0
    /\ disconnects = 0
    /\ picking = NotPicking
    /\ nemsocket_ = 0
    /\ sockState = [s \in Sockets |-> "none"]
    /\ subs = {}
    /\ aliveIntervals = [i \in Timers |-> NoTimer]
    /\ heightPulls = 0
    /\ fallbackInterval = FALSE
    /\ pullsInFlight = 0
    /\ lastPoll = [size |-> 0, multisig |-> 0, passed |-> 0, others |-> 0]
    /\ tasks = [t \in TaskIds |-> IdleTask]
    /\ signedTrxs = << >>
    /\ announced = [h \in Hashes |-> 0]
    /\ amountEval = NoEval
    /\ signCall = NoSignCall
    /\ subscribing = NotSubscribing

\* the bot in sign mode: every signing configuration, the module with and
\* without disconnectBlockchainSocket, one list of nodes
Init ==
    /\ conf \in ConfChoices
    /\ hasDisconnect \in BOOLEAN
    /\ nodeConf = NodeConf(<<"h1", "h2">>, "")
    /\ InitState

\* the bot in sign mode without a ceiling, the module with
\* disconnectBlockchainSocket
InitNoCeiling ==
    /\ conf \in NoCeilingConfs
    /\ hasDisconnect = TRUE
    /\ nodeConf = NodeConf(<<"h1", "h2">>, "")
    /\ InitState

\* the auditor of a module that implements disconnectBlockchainSocket: every
\* list of nodes and NEM_HOST setting, one signing configuration
InitMonitor ==
    /\ conf = Conf(AcceptString, 0, TRUE)
    /\ hasDisconnect = TRUE
    /\ nodeConf \in NodeConfChoices
    /\ InitState

\* the same auditor with one list of nodes
InitStaleness ==
    /\ conf = Conf(AcceptString, 0, TRUE)
    /\ hasDisconnect = TRUE
    /\ nodeConf = NodeConf(<<"h1", "h2", "h3">>, "")
    /\ InitState

\* ------------------------------------------------------ record store
\* NEMSignedTransaction.findOne({transactionHash: trxHash})
HasSignedTrx(trxHash) ==
    \E i \in 1..Len(signedTrxs) : signedTrxs[i].transactionHash = trxHash

SaveSignedTrxDuplicate(doc) == Append(signedTrxs, doc)

\* transaction.save(): transactionHash is a unique key of the collection, a
\* second document with a stored hash is refused.
SaveSignedTrx(doc) ==
    IF HasSignedTrx(doc.transactionHash)
    THEN signedTrxs
    ELSE Append(signedTrxs, doc)

RECURSIVE SumAmountXEM(_)
SumAmountXEM(docs) ==
    IF docs = << >> THEN Zero
    ELSE NumAdd(Head(docs).amountXEM, SumAmountXEM(Tail(docs)))

\* NEMSignedTransaction.aggregate({$group: {dailyAmount: {$sum: "$amountXEM"}}}):
\* the total of the collection, or nothing when the read failed or the
\* collection is empty.
NoAggregate == [defined |-> FALSE, dailyAmount |-> Zero]

AggregateData(failed) ==
    IF failed \/ signedTrxs = << >>
    THEN NoAggregate
    ELSE [defined |-> TRUE, dailyAmount |-> SumAmountXEM(signedTrxs)]

\* ------------------------------------------------- verification, signing
isAcceptedCosignatoryAnyEntry(cosigPubKey) ==
    LET cosigs == conf.acceptFrom
    IN  IF cosigs.isString
        THEN cosigs.str = cosigPubKey
        ELSE Len(cosigs.list) > 0

isAcceptedCosignatory(cosigPubKey) ==
    LET cosigs == conf.acceptFrom
    IN  IF cosigs.isString
        THEN cosigs.str = cosigPubKey
        ELSE \E i \in 1..Len(cosigs.list) : cosigs.list[i] = cosigPubKey

verifyTransactionSignerOnly(transactionMetaDataPair) ==
    isAcceptedCosignatory(transactionMetaDataPair.transaction.signer)

verifyTransaction(transactionMetaDataPair) ==
    LET content == transactionMetaDataPair.transaction
        isMultisig == content.type = multisigTransaction
        trxRealData == IF isMultisig THEN content.otherTrans ELSE content
        trxInitiatorPubKey == content.signer
        trxAcctPubKey == trxRealData.signer
        trxRealAccount == StripDashes(toAddress(trxAcctPubKey))
        multisigAccount == conf.multisigAddress
    IN  IF ~isAcceptedCosignatory(trxInitiatorPubKey) THEN FALSE
        ELSE IF trxRealAccount # multisigAccount THEN FALSE
        ELSE TRUE

signTransactionNoKeyCheck(transactionMetaDataPair) ==
    IF ~verifyTransaction(transactionMetaDataPair) THEN "notVerified"
    ELSE "announce"

\* signTransaction up to the announce call: the exception it throws, or
\* "announce" when the signed payload is handed to transaction.announce.
signTransaction(transactionMetaDataPair) ==
    IF ~conf.privateKeyValid THEN "invalidKey"
    ELSE IF ~verifyTransaction(transactionMetaDataPair) THEN "notVerified"
    ELSE "announce"

LimitReachedStrict(dailyAmt, dailyMax) ==
    dailyMax > 0 /\ NumGT(dailyAmt, Num(dailyMax, 0))

\* The two ceiling tests of the aggregate callback.
LimitReached(dailyAmt, dailyMax) ==
    dailyMax > 0 /\ NumGE(dailyAmt, Num(dailyMax, 0))

LimitPassedAnyCeiling(dailyAmt, trxAmount, dailyMax) ==
    NumGT(NumAdd(dailyAmt, trxAmount), Num(dailyMax, 0))

\* if (dailyMax > 0 && dailyAmt + trxAmount > dailyMax)
LimitPassed(dailyAmt, trxAmount, dailyMax) ==
    dailyMax > 0 /\ NumGT(NumAdd(dailyAmt, trxAmount), Num(dailyMax, 0))

\* ------------------------------- automaticTransactionSigningHandler
UsedTasks == Cardinality({t \in TaskIds : tasks[t].pc # "idle"})

\* The handler called once for every pair of a list, in order: each call
\* issues NEMSignedTransaction.findOne and returns.
StartedTasks(pairs) ==
    [t \in TaskIds |->
        IF t > UsedTasks /\ t <= UsedTasks + Len(pairs)
        THEN [IdleTask EXCEPT
                 !.pc = "findOne",
                 !.pair = pairs[t - UsedTasks],
                 !.late = HasSignedTrx(getTransactionHash(pairs[t - UsedTasks]))]
        ELSE tasks[t]]

Done(t, outcome) == [tasks[t] EXCEPT !.pc = "done", !.out = outcome]

AlreadySignedOnError(err, signedTrx) == err /\ signedTrx

\* if (!err && signedTrx): transaction already signed
AlreadySigned(err, signedTrx) == ~err /\ signedTrx

LookupFailedNever(err) == FALSE

\* else if (err): the lookup failed, the handler logs and returns
LookupFailed(err) == err

\* callback of findOne
FindOneCallback(t, err) ==
    /\ tasks[t].pc = "findOne"
    /\ LET signedTrx == ~err /\ HasSignedTrx(getTransactionHash(tasks[t].pair))
       IN  tasks' = [tasks EXCEPT ![t] =
                        IF AlreadySigned(err, signedTrx) THEN Done(t, "alreadySigned")
                        ELSE IF LookupFailed(err) THEN Done(t, "dbError")
                        ELSE [@ EXCEPT !.pc = "aggregate"]]
    /\ UNCHANGED <<confVars, evalVars, auditVars, socketVars, fallbackVars, signedTrxs, announced>>

\* callback of aggregate: ceiling tests, then signTransaction
AggregateCallback(t, failed) ==
    /\ tasks[t].pc = "aggregate"
    /\ LET aggregateData == AggregateData(failed)
           dailyAmt == IF aggregateData.defined /\ NumGT(aggregateData.dailyAmount, Zero)
                       THEN aggregateData.dailyAmount
                       ELSE Zero
           dailyMax == conf.dailyAmount
           trxAmount == getTransactionAmount(tasks[t].pair)
           trxHash == getTransactionHash(tasks[t].pair)
           signing == signTransaction(tasks[t].pair)
           ended(outcome) ==
               /\ tasks' = [tasks EXCEPT ![t] = Done(t, outcome)]
               /\ UNCHANGED announced
       IN  IF LimitReached(dailyAmt, dailyMax) THEN ended("limitReached")
           ELSE IF LimitPassed(dailyAmt, trxAmount, dailyMax) THEN ended("limitPassed")
           ELSE IF signing # "announce" THEN ended(signing)
           ELSE /\ tasks' = [tasks EXCEPT ![t].pc = "announce"]
                /\ announced' = [announced EXCEPT ![trxHash] = @ + 1]
    /\ UNCHANGED <<confVars, evalVars, auditVars, socketVars, fallbackVars, signedTrxs>>

\* announce results: {code, message} of a NemAnnounceResult
AnnounceSuccess == [code |-> 1, message |-> "SUCCESS"]
AnnounceNeutral == [code |-> 0, message |-> "NEUTRAL"]
AnnounceFailure == [code |-> 2, message |-> "FAILURE"]
AnnounceResults == {AnnounceSuccess, AnnounceNeutral, AnnounceFailure}

\* the document the success callback builds
SignedTrxDoc(t) ==
    [transactionHash |-> getTransactionHash(tasks[t].pair),
     transactionData |-> tasks[t].pair,
     amountXEM |-> getTransactionAmount(tasks[t].pair)]

AnnounceOutcomeNeutralAsSuccess(res) ==
    IF res.code >= 2 THEN "announceFailed" ELSE "callback"

\* the branch .then() of transaction.announce takes
AnnounceOutcome(res) ==
    IF res.code >= 2 THEN "announceFailed"
    ELSE IF "SUCCESS" = res.message THEN "callback"
    ELSE "neutral"

\* .then() of transaction.announce; the callback reads nemsocket_.socketpt,
\* which throws on a null socket, and saves the document
AnnounceResponse(t, res) ==
    /\ tasks[t].pc = "announce"
    /\ LET outcome == AnnounceOutcome(res)
           ended(o) == tasks' = [tasks EXCEPT ![t] =
                                    [Done(t, o) EXCEPT !.res = res.message]]
       IN  IF outcome # "callback"
           THEN ended(outcome) /\ UNCHANGED signedTrxs
           ELSE IF nemsocket_ = 0
           THEN ended("callbackThrew") /\ UNCHANGED signedTrxs
           ELSE ended("saved") /\ signedTrxs' = SaveSignedTrx(SignedTrxDoc(t))
    /\ UNCHANGED <<confVars, evalVars, auditVars, socketVars, fallbackVars, announced>>

\* rejection handler of transaction.announce
AnnounceRejected(t) ==
    /\ tasks[t].pc = "announce"
    /\ tasks' = [tasks EXCEPT ![t] = [Done(t, "announceError") EXCEPT !.res = "REJECTED"]]
    /\ UNCHANGED <<confVars, evalVars, auditVars, socketVars, fallbackVars, signedTrxs, announced>>

\* --------------------------------------------- connectBlockchainSocket
Created == Cardinality({s \in Sockets : sockState[s] # "none"})

\* switches on their way to the connectBlockchainSocket() that ends them
PendingSwitches ==
    settleTimers + disconnects + (IF picking.active THEN 1 ELSE 0)

\* new api_(host:port) and connectWS: one more socket, connecting, which
\* becomes the module's current socket
OpenSocket(states) ==
    /\ Created < MaxConnects
    /\ nemsocket_' = Created + 1
    /\ sockState' = [states EXCEPT ![Created + 1] = "connecting"]

\* ---------------------------------------------- intervals of the auditor
\* intervals that are armed; a cleared interval leaves its place to a later
\* setInterval
TimersArmed == Cardinality({i \in Timers : aliveIntervals[i].st = "armed"})

\* connectWS calls that will arm an interval when they succeed
Connecting(states) == Cardinality({s \in Sockets : states[s] = "connecting"})

\* connectBlockchainSocket() outside a switch: of the MaxConnects sockets one
\* is kept for every switch under way, and of the MaxTimers intervals one
\* for every switch under way and every connectWS under way
NewSocket(states) ==
    /\ Created + PendingSwitches < MaxConnects
    /\ TimersArmed + Connecting(states) + PendingSwitches < MaxTimers
    /\ OpenSocket(states)

\* setInterval of registerBlockDelayAuditor, for the auditor of socket sock
SetAliveInterval(sock) ==
    LET free == CHOOSE i \in Timers :
                    /\ aliveIntervals[i].st # "armed"
                    /\ \A j \in Timers : j < i => aliveIntervals[j].st = "armed"
    IN  [aliveIntervals EXCEPT ![free] = [st |-> "armed", sock |-> sock]]

ClearAliveIntervalKeeps(i) == aliveIntervals

\* clearInterval(aliveInterval)
ClearAliveInterval(i) == [aliveIntervals EXCEPT ![i].st = "cleared"]

\* websocketFallbackHandler() of the auditor: the chain.height request
heightPull ==
    /\ heightPulls < MaxHeightPulls
    /\ heightPulls' = heightPulls + 1

\* the first call, made by the server when the bot starts in sign mode
connectBlockchainSocket ==
    /\ ~picking.active
    /\ subscribing.depth = 0
    /\ nemsocket_ = 0
    /\ NewSocket(sockState)
    /\ UNCHANGED <<confVars, evalVars, auditVars, subs, aliveIntervals, heightPulls, fallbackVars,
                   pipelineVars>>

\* new BlocksAuditor(module) completes only for a module that implements
\* disconnectBlockchainSocket; otherwise the constructor throws.
auditorConstructs == hasDisconnect

\* The callback of connectWS on socket s.  Subscriptions go to the current
\* socket; subscribeWS throws on a socket that is not connected.  Any
\* exception of the try block ends in a new connectBlockchainSocket().
connectWSCallback(s) ==
    /\ ~picking.active
    /\ subscribing.depth = 0
    /\ sockState[s] = "connecting"
    /\ LET opened == [sockState EXCEPT ![s] = "open"]
           target == nemsocket_
       IN  IF opened[target] # "open"
           THEN /\ NewSocket(opened)
                /\ UNCHANGED <<subs, aliveIntervals, heightPulls>>
           ELSE IF ~auditorConstructs
           THEN /\ subs' = subs \cup {<<target, ErrorsUri>>}
                /\ NewSocket(opened)
                /\ UNCHANGED <<aliveIntervals, heightPulls>>
           ELSE /\ subs' = subs \cup {<<target, ErrorsUri>>, <<target, BlocksUri>>,
                                      <<target, UnconfirmedUri>>}
                /\ aliveIntervals' = SetAliveInterval(target)
                /\ heightPull
                /\ sockState' = opened
                /\ UNCHANGED nemsocket_
    /\ UNCHANGED <<confVars, evalVars, auditVars, fallbackVars, pipelineVars>>

websocketErrorHandlerAlways(s, lostConn) ==
    /\ ~picking.active
    /\ subscribing.depth = 0
    /\ sockState[s] \in {"connecting", "open"}
    /\ NewSocket([sockState EXCEPT ![s] = IF lostConn THEN "lost" ELSE "failed"])
    /\ UNCHANGED <<confVars, evalVars, auditVars, subs, aliveIntervals, heightPulls,
                   fallbackVars, pipelineVars>>

\* websocketErrorHandler(error) of socket s: "Lost connection to ..." opens a
\* new socket to the same endpoint, any other error is logged.
websocketErrorHandler(s, lostConn) ==
    /\ ~picking.active
    /\ subscribing.depth = 0
    /\ sockState[s] \in {"connecting", "open"}
    /\ IF lostConn
       THEN NewSocket([sockState EXCEPT ![s] = "lost"])
       ELSE /\ sockState[s] = "connecting"
            /\ sockState' = [sockState EXCEPT ![s] = "failed"]
            /\ UNCHANGED nemsocket_
    /\ UNCHANGED <<confVars, evalVars, auditVars, subs, aliveIntervals, heightPulls, fallbackVars,
                   pipelineVars>>

pushFilterTypeAny(transactionData) == multisigTransaction

\* the type the listener tests: transaction.type, where transaction is
\* transactionData.transaction
pushFilterType(transactionData) == TypeOf(transactionData.transaction)

\* listener of the /unconfirmed/{multisigAddress} topic
unconfirmedListener(s, transactionData) ==
    /\ <<s, UnconfirmedUri>> \in subs
    /\ sockState[s] = "open"
    /\ IF pushFilterType(transactionData) # multisigTransaction
       THEN UNCHANGED tasks
       ELSE /\ UsedTasks < MaxTasks
            /\ tasks' = StartedTasks(<<transactionData>>)
    /\ UNCHANGED <<confVars, evalVars, auditVars, socketVars, fallbackVars, signedTrxs, announced>>

\* -------------------------------------------- websocketFallbackHandler
\* the request of one pull cycle
unconfirmedRequest ==
    /\ pullsInFlight < MaxPolls
    /\ pullsInFlight' = pullsInFlight + 1

\* connectFallbackListener: arms the interval and pulls at once
connectFallbackListener ==
    /\ ~fallbackInterval
    /\ fallbackInterval' = TRUE
    /\ unconfirmedRequest
    /\ UNCHANGED <<confVars, evalVars, auditVars, socketVars, lastPoll, pipelineVars>>

\* the interval fires
fallbackIntervalFires ==
    /\ fallbackInterval
    /\ unconfirmedRequest
    /\ UNCHANGED <<confVars, evalVars, auditVars, socketVars, fallbackInterval, lastPoll, pipelineVars>>

\* the type the loop of the pull continuation tests: transaction.type, where
\* transaction is the element of res.data, a {meta, transaction} pair
fallbackFilterType(element) == TypeOf(element)

IsMultisigPair(p) == p.transaction.type = multisigTransaction

\* responses of account.transactions.unconfirmed
PollPairs ==
    { p \in Pairs : /\ p.meta.hash = ""
                    /\ p.transaction.signer = "k1"
                    /\ IsMultisigPair(p) => /\ p.transaction.otherTrans.amount = 2
                                            /\ p.transaction.otherTrans.signer = "pkM" }

UnconfirmedResponses ==
    UNION { [1..n -> PollPairs] : n \in 0..MaxResp }

\* .then() of account.transactions.unconfirmed
websocketFallbackHandler(unconfirmed) ==
    /\ pullsInFlight > 0
    /\ pullsInFlight' = pullsInFlight - 1
    /\ LET passed == SelectSeq(unconfirmed,
                         LAMBDA e : ~(fallbackFilterType(e) # multisigTransaction))
           multisig == SelectSeq(unconfirmed, IsMultisigPair)
       IN  /\ UsedTasks + Len(passed) <= MaxTasks
           /\ tasks' = StartedTasks(passed)
           /\ lastPoll' = [size |-> Len(unconfirmed),
                           multisig |-> Len(multisig),
                           passed |-> Len(SelectSeq(passed, IsMultisigPair)),
                           others |-> Len(passed) - Len(SelectSeq(passed, IsMultisigPair))]
    /\ UNCHANGED <<confVars, evalVars, auditVars, socketVars, fallbackInterval, signedTrxs, announced>>

\* rejection handler of account.transactions.unconfirmed
unconfirmedRejected ==
    /\ pullsInFlight > 0
    /\ pullsInFlight' = pullsInFlight - 1
    /\ UNCHANGED <<confVars, evalVars, auditVars, socketVars, fallbackInterval, lastPoll, pipelineVars>>

\* ----------------------------------------------------- BlocksAuditor
\* what no method of the auditor touches
notAuditVars == <<confVars, evalVars, fallbackVars, pipelineVars>>

BagSize(bag) ==
    LET RECURSIVE Sum(_)
        Sum(S) == IF S = {} THEN 0
                  ELSE LET x == CHOOSE y \in S : TRUE
                       IN  bag[x] + Sum(S \ {x})
    IN  Sum(DOMAIN bag)

BagAdd(bag, x) == [bag EXCEPT ![x] = @ + 1]

BagRemove(bag, x) == [bag EXCEPT ![x] = @ - 1]

\* NEMBlockHeight.findOne(bkQuery, ...) issued for a reported height
FindBlockHeight(height) ==
    /\ BagSize(bkFinds) + BagSize(bkSaves) < MaxLookups
    /\ bkFinds' = BagAdd(bkFinds, height)

\* listener of /blocks/new on the socket of an auditor
newBlockListener(s, height) ==
    /\ ~picking.active
    /\ <<s, BlocksUri>> \in subs
    /\ sockState[s] = "open"
    /\ FindBlockHeight(height)
    /\ UNCHANGED <<notAuditVars, socketVars, now, blockHeights, bkSaves,
                   staleReads, lastCheck, switchVars>>

\* websocketFallbackHandler of the auditor: .then() of chain.height
heightResponse(height) ==
    /\ ~picking.active
    /\ heightPulls > 0
    /\ heightPulls' = heightPulls - 1
    /\ FindBlockHeight(height)
    /\ UNCHANGED <<notAuditVars, nemsocket_, sockState, subs, aliveIntervals, now,
                   blockHeights, bkSaves, staleReads, lastCheck, switchVars>>

\* rejection handler of chain.height
heightRejected ==
    /\ ~picking.active
    /\ subscribing.depth = 0
    /\ heightPulls > 0
    /\ heightPulls' = heightPulls - 1
    /\ UNCHANGED <<notAuditVars, nemsocket_, sockState, subs, aliveIntervals,
                   auditVars>>

\* a document of the collection with the height of bkQuery
HasBlockHeight(height) ==
    \E d \in BlockDocs : d.blockHeight = height /\ blockHeights[d] > 0

\* if (!err && !block)
BlockIsNew(err, block) == ~err /\ ~block

\* callback of findOne(bkQuery): a height without a document is saved with
\* the time of the callback
bkFindOneCallback(height, err) ==
    /\ ~picking.active
    /\ bkFinds[height] > 0
    /\ bkFinds' = BagRemove(bkFinds, height)
    /\ IF BlockIsNew(err, ~err /\ HasBlockHeight(height))
       THEN bkSaves' = BagAdd(bkSaves, [blockHeight |-> height, createdAt |-> now])
       ELSE UNCHANGED bkSaves
    /\ UNCHANGED <<notAuditVars, socketVars, now, blockHeights, staleReads, lastCheck, switchVars>>

\* block.save() reaches the collection: the document is inserted, or the
\* save fails and the callback logs the error
InsertBlockHeightUpsert(doc) ==
    [d \in BlockDocs |->
        IF d = doc THEN 1
        ELSE IF d.blockHeight = doc.blockHeight THEN 0
        ELSE blockHeights[d]]

\* the save of a new NEMBlockHeight inserts one document
InsertBlockHeight(doc) == BagAdd(blockHeights, doc)

bkSaveCallback(doc, err) ==
    /\ ~picking.active
    /\ bkSaves[doc] > 0
    /\ bkSaves' = BagRemove(bkSaves, doc)
    /\ blockHeights' = IF err THEN blockHeights ELSE InsertBlockHeight(doc)
    /\ UNCHANGED <<notAuditVars, socketVars, now, bkFinds, staleReads, lastCheck, switchVars>>

\* the clock advances
Tick ==
    /\ ~picking.active
    /\ now + ClockStep <= MaxTime
    /\ now' = now + ClockStep
    /\ UNCHANGED <<notAuditVars, socketVars, storeVars, staleReads, lastCheck, switchVars>>

\* an interval of registerBlockDelayAuditor fires: the store read is issued
aliveIntervalFires(i) ==
    /\ ~picking.active
    /\ subscribing.depth = 0
    /\ aliveIntervals[i].st = "armed"
    /\ i \notin staleReads
    /\ staleReads' = staleReads \cup {i}
    /\ UNCHANGED <<notAuditVars, socketVars, now, storeVars, lastCheck, switchVars>>

\* findOne({moduleName}, null, {sort: {blockHeight: -1}}): the documents the
\* read can return, those of the greatest stored height
TopBlocks ==
    {d \in BlockDocs : /\ blockHeights[d] > 0
                       /\ \A e \in BlockDocs : blockHeights[e] > 0
                                                => e.blockHeight <= d.blockHeight}

ReadResults == IF TopBlocks = {} THEN {NoBlock} ELSE TopBlocks

IsStaleStrict(block, time) ==
    LET limitAge == time - StaleMinutes
    IN  block = NoBlock \/ block.createdAt < limitAge

\* !block || block.createdAt <= limitAge
IsStale(block, time) ==
    LET limitAge == time - StaleMinutes
    IN  block = NoBlock \/ block.createdAt <= limitAge

ReadFailedNever(err) == FALSE

\* if (err)
ReadFailed(err) == err

\* callback of the store read of interval i, of the auditor of socket
\* aliveIntervals[i].sock
staleReadCallback(i, err, block) ==
    /\ ~picking.active
    /\ i \in staleReads
    /\ staleReads' = staleReads \ {i}
    /\ block \in ReadResults
    /\ lastCheck' = IF ReadFailed(err) THEN lastCheck
                    ELSE IF block = NoBlock THEN NoCheck
                    ELSE [found |-> TRUE, age |-> now - block.createdAt]
    /\ LET sock == aliveIntervals[i].sock
       IN  IF ReadFailed(err)
           THEN \* clearInterval, subscribeToBlockUpdates(): subscribeWS throws
                \* on a socket that is not connected, and the retry of the
                \* catch block throws again until the stack is exhausted
                IF sockState[sock] = "open"
                THEN /\ TimersArmed < MaxTimers
                     /\ subs' = subs \cup {<<sock, BlocksUri>>}
                     /\ aliveIntervals' =
                           [SetAliveInterval(sock) EXCEPT ![i].st = "cleared"]
                     /\ heightPull
                     /\ UNCHANGED settleTimers
                ELSE /\ aliveIntervals' = ClearAliveInterval(i)
                     /\ UNCHANGED <<subs, heightPulls, settleTimers>>
           ELSE IF IsStale(block, now)
           THEN \* clearInterval, websocketFallbackHandler(), setTimeout
                /\ Created + PendingSwitches < MaxConnects
                /\ aliveIntervals' = ClearAliveInterval(i)
                /\ heightPull
                /\ settleTimers' = settleTimers + 1
                /\ UNCHANGED subs
           ELSE UNCHANGED <<subs, aliveIntervals, heightPulls, settleTimers>>
    /\ UNCHANGED <<notAuditVars, nemsocket_, sockState, now, storeVars, nemHost,
                   disconnects, picking>>

\* The error branch of the same callback, followed call by call: the interval
\* is cleared and subscribeToBlockUpdates() is called.
readErrorResubscribes(i) ==
    /\ ~picking.active
    /\ subscribing.depth = 0
    /\ i \in staleReads
    /\ heightPulls < MaxHeightPulls
    /\ staleReads' = staleReads \ {i}
    /\ aliveIntervals' = ClearAliveInterval(i)
    /\ subscribing' = [depth |-> 1, sock |-> aliveIntervals[i].sock, pc |-> "try"]
    /\ UNCHANGED <<confVars, amountEval, signCall, fallbackVars, pipelineVars, nemsocket_,
                   sockState, subs, heightPulls, now, storeVars, lastCheck, switchVars>>

\* subscribeWS throws on a socket that is not connected
SubscribeThrows(sock) == sockState[sock] # "open"

\* The innermost running call of subscribeToBlockUpdates.  In the try block
\* subscribeWS registers the listener, or it throws and the catch block
\* calls subscribeToBlockUpdates() again; a call the stack cannot hold
\* raises a RangeError in the catch blocks of all the callers, which ends
\* them.  After the try statement registerBlockDelayAuditor arms the
\* interval and pulls the height, and the call returns to its caller, which
\* is then after its own try statement.
subscribeToBlockUpdates ==
    /\ subscribing.depth > 0
    /\ IF subscribing.pc = "try"
       THEN IF SubscribeThrows(subscribing.sock)
            THEN /\ subscribing' = IF subscribing.depth < MaxStack
                                   THEN [subscribing EXCEPT !.depth = @ + 1]
                                   ELSE NotSubscribing
                 /\ UNCHANGED <<subs, aliveIntervals, heightPulls>>
            ELSE /\ subs' = subs \cup {<<subscribing.sock, BlocksUri>>}
                 /\ subscribing' = [subscribing EXCEPT !.pc = "register"]
                 /\ UNCHANGED <<aliveIntervals, heightPulls>>
       ELSE /\ aliveIntervals' = SetAliveInterval(subscribing.sock)
            /\ heightPull
            /\ subscribing' = IF subscribing.depth > 1
                              THEN [subscribing EXCEPT !.depth = @ - 1]
                              ELSE NotSubscribing
            /\ UNCHANGED subs
    /\ UNCHANGED <<confVars, amountEval, signCall, fallbackVars, pipelineVars, nemsocket_,
                   sockState, auditVars>>

\* module_.disconnectBlockchainSocket(callback): every topic of the module's
\* socket is unsubscribed and the socket is closed; the continuation runs
\* when that is done
disconnectBlockchainSocket ==
    /\ subs' = {sub \in subs : sub[1] # nemsocket_}
    /\ sockState' = IF nemsocket_ = 0 THEN sockState
                    ELSE [sockState EXCEPT ![nemsocket_] = "closed"]
    /\ disconnects' = disconnects + 1

\* the settle delay ends: autoSwitchSocketNode()
autoSwitchSocketNode ==
    /\ ~picking.active
    /\ settleTimers > 0
    /\ settleTimers' = settleTimers - 1
    /\ disconnectBlockchainSocket
    /\ UNCHANGED <<notAuditVars, nemsocket_, aliveIntervals, heightPulls, now,
                   storeVars, staleReads, lastCheck, nemHost, picking>>

\* the continuation of the disconnect starts: currentHost is read and the
\* do/while loop is entered
disconnectCallback ==
    /\ ~picking.active
    /\ disconnects > 0
    /\ disconnects' = disconnects - 1
    /\ picking' = [active |-> TRUE, currentHost |-> nemHost]
    /\ UNCHANGED <<notAuditVars, socketVars, now, storeVars, staleReads, lastCheck, nemHost,
                   settleTimers>>

\* Math.floor(Math.random() * (cntNodes - 1)), Math.random() in [0, 1)
RandomIdx(cntNodes) == IF cntNodes <= 1 THEN {0} ELSE 0..(cntNodes - 2)

LoopAgainNever(nextHost, currentHost) == FALSE

\* while (nextHost == currentHost)
LoopAgain(nextHost, currentHost) == nextHost = currentHost

\* one iteration of the do/while loop with the index drawn; when the loop
\* ends, the rest of the continuation: the endpoint is replaced and
\* connectBlockchainSocket() is called
selectNextHost(randomIdx) ==
    /\ picking.active
    /\ LET nextHost == nodeConf.nodes[randomIdx + 1]
       IN  IF LoopAgain(nextHost, picking.currentHost)
           THEN UNCHANGED <<nemHost, picking, nemsocket_, sockState>>
           ELSE /\ nemHost' = nextHost
                /\ picking' = NotPicking
                /\ OpenSocket(sockState)
    /\ UNCHANGED <<notAuditVars, subs, aliveIntervals, heightPulls, now, storeVars,
                   staleReads, lastCheck, settleTimers, disconnects>>

\* ------------------------------------------- getTransactionAmount called
\* one call of blockchain_.getTransactionAmount(transactionMetaDataPair), with
\* the default mosaicSlug and divisibility; the function keeps no state, so
\* one call per behaviour covers every call
callGetTransactionAmount(transactionMetaDataPair) ==
    /\ ~amountEval.called
    /\ amountEval' = [called |-> TRUE, pair |-> transactionMetaDataPair,
                      result |-> getTransactionAmount(transactionMetaDataPair)]
    /\ UNCHANGED <<confVars, auditVars, socketVars, fallbackVars, pipelineVars, signCall,
                   subscribing>>

\* ------------------------------------------------ signTransaction called
\* module.signTransaction(transactionMetaDataPair, callback) called by another
\* caller than the handler: the call throws, or it hands the signed payload
\* to transaction.announce and returns; the answer of the announce is logged
\* or passed to the callback of the caller
callSignTransaction(transactionMetaDataPair) ==
    LET signing == signTransaction(transactionMetaDataPair)
        trxHash == getTransactionHash(transactionMetaDataPair)
    IN  /\ signCall' = [called |-> TRUE, pair |-> transactionMetaDataPair,
                        threw |-> IF signing = "announce" THEN "" ELSE signing]
        /\ IF signing = "announce"
           THEN /\ announced[trxHash] < MaxTasks
                /\ announced' = [announced EXCEPT ![trxHash] = @ + 1]
           ELSE UNCHANGED announced
        /\ UNCHANGED <<confVars, auditVars, socketVars, fallbackVars, tasks, signedTrxs,
                       amountEval, subscribing>>

\* ------------------------------------------------------ specification
\* the signing pipeline fed by the push topic
NextSigning ==
    \/ connectBlockchainSocket
    \/ \E s \in Sockets : connectWSCallback(s)
    \/ \E s \in Sockets, p \in Pairs : unconfirmedListener(s, p)
    \/ \E t \in TaskIds, err \in BOOLEAN : FindOneCallback(t, err)
    \/ \E t \in TaskIds, failed \in BOOLEAN : AggregateCallback(t, failed)
    \/ \E t \in TaskIds, res \in AnnounceResults : AnnounceResponse(t, res)
    \/ \E t \in TaskIds : AnnounceRejected(t)

\* the two producers of candidates: the push topic and the pull cycle
NextIntake ==
    \/ connectBlockchainSocket
    \/ \E s \in Sockets : connectWSCallback(s)
    \/ \E s \in Sockets, p \in Pairs : unconfirmedListener(s, p)
    \/ connectFallbackListener
    \/ fallbackIntervalFires
    \/ \E unconfirmed \in UnconfirmedResponses : websocketFallbackHandler(unconfirmed)
    \/ unconfirmedRejected


SpecSigning == Init /\ [][NextSigning]_vars

SpecIntake == Init /\ [][NextIntake]_vars

\* amount extraction over the transfers of AmountPairs
NextAmount == \E p \in AmountPairs : callGetTransactionAmount(p)

SpecAmount == Init /\ [][NextAmount]_vars

\* the heights the module records, from the push topic and from the pull
NextStore ==
    \/ connectBlockchainSocket
    \/ \E s \in Sockets : connectWSCallback(s)
    \/ \E s \in Sockets, h \in Heights : newBlockListener(s, h)
    \/ \E h \in Heights : heightResponse(h)
    \/ heightRejected
    \/ \E h \in Heights, err \in BOOLEAN : bkFindOneCallback(h, err)
    \/ \E d \in BlockDocs, err \in BOOLEAN : bkSaveCallback(d, err)
    \/ Tick

SpecStore == InitStaleness /\ [][NextStore]_vars

\* the staleness check of the auditor over the heights its pulls record, up
\* to the settle delay of the switch it starts
NextMonitor ==
    \/ connectBlockchainSocket
    \/ \E s \in Sockets : connectWSCallback(s)
    \/ \E h \in Heights : heightResponse(h)
    \/ heightRejected
    \/ \E h \in Heights, err \in BOOLEAN : bkFindOneCallback(h, err)
    \/ \E d \in BlockDocs, err \in BOOLEAN : bkSaveCallback(d, err)
    \/ Tick
    \/ \E i \in Timers : aliveIntervalFires(i)
    \/ \E i \in Timers, err \in BOOLEAN, block \in BlockDocs \cup {NoBlock} :
           staleReadCallback(i, err, block)

SpecMonitor == InitStaleness /\ [][NextMonitor]_vars

\* the module's socket with its transport errors, the intervals of its
\* auditors and the switches of the endpoint, while no height reaches the
\* store (the pulls of the auditors stay unanswered)
NextSwitch ==
    \/ connectBlockchainSocket
    \/ \E s \in Sockets : connectWSCallback(s)
    \/ \E s \in Sockets, lostConn \in BOOLEAN : websocketErrorHandler(s, lostConn)
    \/ \E i \in Timers : aliveIntervalFires(i)
    \/ \E i \in Timers, err \in BOOLEAN : staleReadCallback(i, err, NoBlock)
    \/ heightRejected
    \/ autoSwitchSocketNode
    \/ disconnectCallback
    \/ \E randomIdx \in RandomIdx(Len(nodeConf.nodes)) : selectNextHost(randomIdx)

SpecSwitch == InitMonitor /\ [][NextSwitch]_vars

\* the resubscribe after a store read error, call by call; the callbacks of
\* the socket and of the timers wait while calls of subscribeToBlockUpdates
\* are on the stack
NextSubscribe ==
    \/ connectBlockchainSocket
    \/ \E s \in Sockets : connectWSCallback(s)
    \/ \E s \in Sockets, lostConn \in BOOLEAN : websocketErrorHandler(s, lostConn)
    \/ \E i \in Timers : aliveIntervalFires(i)
    \/ heightRejected
    \/ \E i \in Timers : readErrorResubscribes(i)
    \/ subscribeToBlockUpdates

SpecSubscribe == InitMonitor /\ [][NextSubscribe]_vars

\* an iteration of the loop that ends it
SelectStep ==
    \E randomIdx \in RandomIdx(Len(nodeConf.nodes)) : selectNextHost(randomIdx)

\* fair random choice: while the loop runs every index Math.random() can
\* give is drawn again and again, so an index that ends the loop is drawn
SpecSwitchFair == SpecSwitch /\ WF_vars(SelectStep)

\* a switch on a list of three hosts, where the loop can always end.  Every
\* callback whose request was made runs: the settle delay ends, the
\* disconnect and the height pull are answered, the loop draws an index that
\* ends it, and a connectWS that meets no transport error succeeds
SpecRecover ==
    /\ InitStaleness
    /\ [][NextSwitch]_vars
    /\ WF_vars(autoSwitchSocketNode)
    /\ WF_vars(disconnectCallback)
    /\ WF_vars(SelectStep)
    /\ WF_vars(heightRejected)
    /\ \A s \in Sockets : SF_vars(connectWSCallback(s))

\* the signing pipeline without a ceiling
SpecNoCeiling == InitNoCeiling /\ [][NextSigning]_vars

\* the signing pipeline fed by the push topic and by the pull cycle
NextRetry ==
    \/ NextSigning
    \/ connectFallbackListener
    \/ fallbackIntervalFires
    \/ \E unconfirmed \in UnconfirmedResponses : websocketFallbackHandler(unconfirmed)
    \/ unconfirmedRejected

SpecRetry == InitNoCeiling /\ [][NextRetry]_vars

\* signTransaction called from outside the handler
NextDirect == \E p \in Pairs : callSignTransaction(p)

SpecDirect == Init /\ [][NextDirect]_vars

\* the whole bot
Next ==
    \/ NextSigning
    \/ NextIntake
    \/ NextStore
    \/ NextMonitor
    \/ NextSwitch
    \/ NextAmount
    \/ NextRetry
    \/ NextDirect
    \/ NextSubscribe

Spec == Init /\ [][Next]_vars

\* ---------------------------------------------------------- properties
TaskHash(t) == getTransactionHash(tasks[t].pair)

DocsFor(h) ==
    Cardinality({i \in 1..Len(signedTrxs) : signedTrxs[i].transactionHash = h})

Called(t) == tasks[t].pc # "idle"

\* the invocation handed a payload to transaction.announce
Announced(t) == tasks[t].pc = "announce" \/ tasks[t].res # ""

\* C1: two invocations of the handler with the same valid candidate for a hash
\* H, every announce answering SUCCESS, end with exactly one announce call
\* for H and exactly one stored document for H, whatever the order of their
\* store lookups, aggregate reads, announce responses and saves
C1_ExactlyOneAnnounce ==
    \A t1, t2 \in TaskIds :
        ( /\ t1 # t2
          /\ tasks[t1].pair = tasks[t2].pair
          /\ \A t \in {t1, t2} : /\ tasks[t].pc = "done"
                                 /\ tasks[t].out \in {"saved", "alreadySigned"}
          /\ \A t \in TaskIds : Called(t) /\ TaskHash(t) = TaskHash(t1) => t \in {t1, t2} )
        => /\ announced[TaskHash(t1)] = 1
           /\ DocsFor(TaskHash(t1)) = 1

\* C2: the collection holds at most one document per transactionHash
C2_OneDocPerHash == \A h \in Hashes : DocsFor(h) <= 1

\* two invocations for one hash both reached the save
C2_Witness ==
    \E t1, t2 \in TaskIds :
        /\ t1 # t2
        /\ TaskHash(t1) = TaskHash(t2)
        /\ tasks[t1].out = "saved"
        /\ tasks[t2].out = "saved"
        /\ DocsFor(TaskHash(t1)) = 1

\* C3: an invocation made when a document for its hash is already stored
\* ends at the lookup: it never reads the aggregate, never announces and
\* never saves
C3_LateIsNoOp ==
    \A t \in TaskIds :
        tasks[t].late =>
            /\ tasks[t].pc \in {"findOne", "done"}
            /\ tasks[t].out \in {"", "alreadySigned", "dbError"}
            /\ ~Announced(t)

C3_Witness ==
    \E t \in TaskIds : tasks[t].late /\ tasks[t].out = "alreadySigned"

\* C4: after a successful connect, a push event on the unconfirmed topic with a
\* valid multisig transaction leads to one stored document and one announce
\* call.  The event reaches the pipeline through the listener of the connected
\* socket: every socket whose connect has succeeded carries the listener of
\* the /unconfirmed topic
C4_ConnectedSocketListens ==
    \A s \in Sockets : sockState[s] = "open" => <<s, UnconfirmedUri>> \in subs

\* CosignatoryAllowList: the public keys of bot.sign.cosignatory.acceptFrom
AllowList ==
    IF conf.acceptFrom.isString
    THEN {conf.acceptFrom.str}
    ELSE {conf.acceptFrom.list[i] : i \in 1..Len(conf.acceptFrom.list)}

InitiatorOf(pair) == pair.transaction.signer

\* the account a transaction spends from: the signer of the inner
\* transaction of a multisig transaction
RealAccountOf(pair) ==
    IF pair.transaction.type = multisigTransaction
    THEN toAddress(pair.transaction.otherTrans.signer)
    ELSE toAddress(pair.transaction.signer)

\* C5: a candidate whose initiator is not in the allow-list is never
\* announced and never stored, whatever its amount and account
C5_UnlistedNeverSigned ==
    /\ \A t \in TaskIds :
          Called(t) /\ InitiatorOf(tasks[t].pair) \notin AllowList
              => ~Announced(t) /\ tasks[t].out # "saved"
    /\ \A i \in 1..Len(signedTrxs) :
          InitiatorOf(signedTrxs[i].transactionData) \in AllowList

\* an unlisted initiator spending from the configured account was refused
C5_Witness ==
    \E t \in TaskIds :
        /\ InitiatorOf(tasks[t].pair) \notin AllowList
        /\ RealAccountOf(tasks[t].pair) = conf.multisigAddress
        /\ tasks[t].out = "notVerified"

\* C6: a candidate whose real account is not the configured multisig address
\* is never announced and never stored
C6_OtherAccountNeverSigned ==
    /\ \A t \in TaskIds :
          Called(t) /\ RealAccountOf(tasks[t].pair) # conf.multisigAddress
              => ~Announced(t) /\ tasks[t].out # "saved"
    /\ \A i \in 1..Len(signedTrxs) :
          RealAccountOf(signedTrxs[i].transactionData) = conf.multisigAddress

\* a listed initiator spending from another account was refused
C6_Witness ==
    \E t \in TaskIds :
        /\ InitiatorOf(tasks[t].pair) \in AllowList
        /\ RealAccountOf(tasks[t].pair) # conf.multisigAddress
        /\ tasks[t].out = "notVerified"

\* the aggregate callback of invocation t runs in this step, with a positive
\* ceiling, a successful aggregate read, a valid key and a valid candidate
CeilingDecision(t) ==
    /\ AggregateCallback(t, FALSE)
    /\ conf.dailyAmount > 0
    /\ conf.privateKeyValid
    /\ InitiatorOf(tasks[t].pair) \in AllowList
    /\ RealAccountOf(tasks[t].pair) = conf.multisigAddress

\* A + a > C, with A the total of the stored documents
OverCeiling(t) ==
    NumGT(NumAdd(SumAmountXEM(signedTrxs), getTransactionAmount(tasks[t].pair)),
          Num(conf.dailyAmount, 0))

\* A >= C
AtCeiling == NumGE(SumAmountXEM(signedTrxs), Num(conf.dailyAmount, 0))

\* C7 as claimed: the candidate is rejected if and only if A + a > C and is
\* announced if and only if A + a <= C
C7_RejectedIffOver ==
    [][\A t \in TaskIds :
          CeilingDecision(t) =>
              /\ tasks'[t].out \in {"limitReached", "limitPassed"} <=> OverCeiling(t)
              /\ tasks'[t].pc = "announce" <=> ~OverCeiling(t)]_vars

\* C7 as amended: the candidate is rejected if and only if A >= C or
\* A + a > C, and is announced otherwise
C7_RejectedIffAtOrOver ==
    [][\A t \in TaskIds :
          CeilingDecision(t) =>
              /\ tasks'[t].out \in {"limitReached", "limitPassed"}
                    <=> (AtCeiling \/ OverCeiling(t))
              /\ tasks'[t].pc = "announce" <=> ~(AtCeiling \/ OverCeiling(t))]_vars

\* a zero-amount candidate was rejected with the total equal to the ceiling
C7_Witness ==
    \E t \in TaskIds :
        /\ tasks[t].out = "limitReached"
        /\ getTransactionAmount(tasks[t].pair) = Zero
        /\ SumAmountXEM(signedTrxs) = Num(conf.dailyAmount, 0)
        /\ conf.dailyAmount > 0

\* C8: a document for a hash is saved exactly by the step in which the
\* announce for that hash is answered with SUCCESS; a failure, a neutral
\* answer or a rejected request leaves the collection unchanged
C8_SavedIffSuccess ==
    [][/\ signedTrxs' # signedTrxs =>
             \E t \in TaskIds :
                 /\ tasks[t].pc = "announce"
                 /\ tasks'[t].res = "SUCCESS"
                 /\ signedTrxs' = Append(signedTrxs, SignedTrxDoc(t))
       /\ \A t \in TaskIds :
             tasks[t].pc = "announce" /\ tasks'[t].res = "SUCCESS"
                 => \E i \in 1..Len(signedTrxs') :
                        signedTrxs'[i].transactionHash = TaskHash(t)]_vars

\* one announce answered SUCCESS with its document stored, another answered
\* otherwise with no document for its hash
C8_Witness ==
    \E t1, t2 \in TaskIds :
        /\ tasks[t1].res = "SUCCESS"
        /\ DocsFor(TaskHash(t1)) = 1
        /\ tasks[t2].res \in {"NEUTRAL", "FAILURE", "REJECTED"}
        /\ DocsFor(TaskHash(t2)) = 0

\* C9: a candidate whose outer type is not multisig never reaches the lookup
\* of the handler, from the push listener or from the pull continuation, and
\* so is never announced nor stored
C9_OnlyMultisigHandled ==
    /\ \A t \in TaskIds : Called(t) => IsMultisigPair(tasks[t].pair)
    /\ lastPoll.others = 0
    /\ \A i \in 1..Len(signedTrxs) : IsMultisigPair(signedTrxs[i].transactionData)

\* a pull response held a transaction that is not multisig, and the push
\* listener has handed a multisig one to the handler
C9_Witness ==
    /\ lastPoll.size > lastPoll.multisig
    /\ \E t \in TaskIds : Called(t)

\* C10: one pull cycle hands every multisig transaction of the response to
\* the handler and no other
C10_PollPassesMultisig ==
    /\ lastPoll.passed = lastPoll.multisig
    /\ lastPoll.others = 0

\* the transfer whose amount a call reads: the inner transaction of a
\* multisig transaction
TransferOf(pair) ==
    IF pair.transaction.type = multisigTransaction
    THEN pair.transaction.otherTrans
    ELSE pair.transaction

\* raw / 10^6 as an exact number
RawOverMillion(raw) == Num(raw \div Million, raw % Million)

\* C11: for a transfer without a mosaics list the extracted amount is the raw
\* amount divided by 10^6 (raw amount 5,000,000 yields 5), the raw amount
\* being that of the inner transaction of a multisig transaction
C11_NoMosaicRawOverMillion ==
    amountEval.called /\ TransferOf(amountEval.pair).mosaics = NoMosaics
        => amountEval.result = RawOverMillion(TransferOf(amountEval.pair).amount)

\* the listed assets that are the target asset, by namespace and by name
Matching(ms) ==
    {i \in 1..Len(ms) : ms[i].mosaicId = [namespaceId |-> "nem", name |-> "xem"]}

FirstMatching(ms) == CHOOSE i \in Matching(ms) : \A j \in Matching(ms) : i <= j

\* n = (raw / 10^6) * quantity, over the raw amounts and quantities of the model
IsScaled(n, raw, quantity) ==
    IF raw % Million = 0
    THEN n = Num((raw \div Million) * quantity, 0)
    ELSE n.w * Million + n.u = raw * quantity

\* C12: for a transfer with a mosaics list the extracted amount is
\* (raw amount / 10^6) * quantity of the first listed asset whose namespace
\* and name both equal those of the target asset, and 0 when no listed asset
\* is the target asset
C12_MosaicAmount ==
    LET tr == TransferOf(amountEval.pair)
    IN  amountEval.called /\ tr.mosaics # NoMosaics =>
            IF Matching(tr.mosaics) = {}
            THEN amountEval.result = Zero
            ELSE IsScaled(amountEval.result, tr.amount,
                          tr.mosaics[FirstMatching(tr.mosaics)].quantity)

\* multiplier 3 and the target asset with quantity 2,000,000, listed after an
\* asset of the same name in another namespace, yield 6
C12_Witness ==
    /\ amountEval.called
    /\ TransferOf(amountEval.pair).amount = 3
    /\ TransferOf(amountEval.pair).mosaics =
           <<Mosaic("dim", "xem", 1), Mosaic("nem", "xem", 2000000)>>
    /\ amountEval.result = Num(6, 0)

\* the hosts of the configured list
NodeHosts == {nodeConf.nodes[i] : i \in 1..Len(nodeConf.nodes)}

\* the do/while loop ends in this step: a switch completes
SwitchCompletes == picking.active /\ ~picking'.active

\* C13: with at least two distinct configured hosts, every switch that
\* completes makes a host active that differs from the host that was active
\* when the switch began, the host its continuation read as currentHost
C13_SwitchLeavesCurrentHost ==
    [][Cardinality(NodeHosts) >= 2 /\ SwitchCompletes
          => /\ picking.currentHost = nemHost
             /\ nemHost' # nemHost]_vars

\* two sockets were closed by disconnectBlockchainSocket and the loop has
\* ended: a second switch has followed a completed one
C13_Witness ==
    /\ Cardinality(NodeHosts) >= 2
    /\ nemHost # InitialHost(nodeConf)
    /\ ~picking.active
    /\ Cardinality({s \in Sockets : sockState[s] = "closed"}) >= 2

\* C14 as claimed: in every reachable state, the initial one included, the
\* active endpoint is a member of the configured list
C14_ActiveInList == nemHost \in NodeHosts

\* C14 as amended: the active endpoint is a member of the configured list or
\* the host NEM_HOST gave at construction, and every switch that completes
\* makes a member of the list active
C14_ActiveInListOrOverride ==
    /\ [](nemHost \in NodeHosts \/ nemHost = nodeConf.envHost)
    /\ [][SwitchCompletes => nemHost' \in NodeHosts]_vars

\* NEM_HOST named a host outside the list and a switch has replaced it
C14_Witness ==
    /\ nodeConf.envHost # ""
    /\ nodeConf.envHost \notin NodeHosts
    /\ nemHost \in NodeHosts

\* C20: with at least two distinct configured hosts the loop of a switch
\* ends, wherever the current host stands in the list, when the random
\* choice is fair
C20_SelectionTerminates ==
    (picking.active /\ Cardinality(NodeHosts) >= 2) ~> ~picking.active

C19_ConnectSubscribesAll ==
    [][\A s \in Sockets :
          (connectWSCallback(s) /\ nemsocket_ = s) =>
              /\ {<<s, ErrorsUri>>, <<s, BlocksUri>>, <<s, UnconfirmedUri>>}
                     \subseteq subs'
              /\ nemsocket_' = s
              /\ Created' = Created]_vars

\* the store read of interval i is answered in this step
ReadAnswered(i) == i \in staleReads /\ i \notin staleReads'

\* the staleness check of interval i reads the store in this step, without an
\* error of the read
StalenessCheck(i) ==
    /\ ReadAnswered(i)
    /\ \E block \in ReadResults : staleReadCallback(i, FALSE, block)

\* the monitor enters SWITCHING: the interval of the check is cancelled, one
\* height pull is issued and the settle delay of a switch starts
EntersSwitching(i) ==
    /\ aliveIntervals'[i].st = "cleared"
    /\ heightPulls' = heightPulls + 1
    /\ settleTimers' = settleTimers + 1

\* the monitor stays SUBSCRIBED: the interval stays armed, the endpoint is
\* unchanged, no switch is started and no disconnect is issued
StaysSubscribed(i) ==
    /\ aliveIntervals'[i].st = "armed"
    /\ UNCHANGED <<aliveIntervals, nemHost, settleTimers, disconnects, sockState, subs>>


DocsOfHeight(h) ==
    BagSize([d \in {e \in BlockDocs : e.blockHeight = h} |-> blockHeights[d]])

\* C16: the collection holds at most one document per height of the module,
\* also when one height is reported twice or by the push topic and the pull
\* at once
C16_OneDocPerHeight == \A h \in Heights : DocsOfHeight(h) <= 1

\* C17: no step updates or removes a stored NEMBlockHeight: every document
\* of the collection stays in it, with its height and its time
C17_HeightsOnlyAppended ==
    [][\A d \in BlockDocs : blockHeights'[d] >= blockHeights[d]]_vars

\* a height was stored again at a later time, and the earlier document is
\* still in the collection
C17_Witness ==
    \E d1, d2 \in BlockDocs :
        /\ d1.blockHeight = d2.blockHeight
        /\ d1.createdAt < d2.createdAt
        /\ blockHeights[d1] > 0
        /\ blockHeights[d2] > 0

\* C21: while the loop of a switch runs, every configured host other than
\* the current one, the last entry of the list included, is a host some pass
\* of the loop can make the active endpoint
C21_EveryOtherHostSelectable ==
    picking.active =>
        \A h \in NodeHosts \ {picking.currentHost} :
            ENABLED (SelectStep /\ nemHost' = h)

\* the age of the document of the module stored last
YoungestAge ==
    LET stored == {d \in BlockDocs : blockHeights[d] > 0}
    IN  IF stored = {} THEN MaxTime + StaleMinutes
        ELSE now - (CHOOSE t \in Times :
                        /\ \E d \in stored : d.createdAt = t
                        /\ \A d \in stored : d.createdAt <= t)

\* C22: a staleness check made while the collection holds a document of the
\* module younger than the threshold does not enter SWITCHING, whatever the
\* heights of the documents (no height being stored twice)
C22_RecentObservationKeepsSubscribed ==
    [][\A i \in Timers :
          /\ StalenessCheck(i)
          /\ YoungestAge < StaleMinutes
          /\ \A h \in Heights : DocsOfHeight(h) <= 1
          => StaysSubscribed(i)]_vars

\* C23: the steps of a switch come in order.  The settle delay starts in the
\* step that cancels the interval and issues one height pull; disconnect is
\* called only when a settle delay ends; the loop starts only in the
\* continuation of a disconnect; the endpoint changes only when the loop
\* ends, in the step that calls connectBlockchainSocket(); and an interval
\* is armed only for an auditor whose socket is connected
C23_SwitchStepsInOrder ==
    [][/\ settleTimers' > settleTimers =>
              /\ \E i \in Timers :
                    /\ aliveIntervals[i].st = "armed"
                    /\ aliveIntervals' = [aliveIntervals EXCEPT ![i].st = "cleared"]
              /\ heightPulls' = heightPulls + 1
              /\ Created' = Created
              /\ UNCHANGED <<nemHost, disconnects, picking>>
       /\ disconnects' > disconnects =>
              /\ settleTimers' = settleTimers - 1
              /\ Created' = Created
              /\ UNCHANGED <<nemHost, aliveIntervals, picking>>
       /\ (picking'.active /\ ~picking.active) =>
              /\ disconnects' = disconnects - 1
              /\ Created' = Created
              /\ UNCHANGED <<nemHost, aliveIntervals>>
       /\ nemHost' # nemHost =>
              /\ SwitchCompletes
              /\ Created' = Created + 1
              /\ sockState'[nemsocket_'] = "connecting"
              /\ UNCHANGED aliveIntervals
       /\ \A i \in Timers :
              (aliveIntervals'[i].st = "armed" /\ aliveIntervals[i].st # "armed")
                  => sockState'[aliveIntervals'[i].sock] = "open"]_vars

\* a switch has run through: a socket was closed by the disconnect, another
\* host is active, and an interval is armed for the auditor of the connected
\* socket
C23_Witness ==
    /\ nemHost # InitialHost(nodeConf)
    /\ \E s \in Sockets : sockState[s] = "closed"
    /\ PendingSwitches = 0
    /\ sockState[nemsocket_] = "open"
    /\ \E i \in Timers : aliveIntervals[i] = [st |-> "armed", sock |-> nemsocket_]

\* C24: a failed store read of the staleness check of interval i cancels the
\* interval and subscribes to block updates again (a /blocks/new listener on
\* the auditor's socket, a new interval, one height pull), and it leaves the
\* endpoint and the socket alone: no settle delay, no disconnect, no loop
C24_ReadErrorResubscribes ==
    [][\A i \in Timers :
          (ReadAnswered(i) /\ \E block \in ReadResults : staleReadCallback(i, TRUE, block)) =>
              /\ <<aliveIntervals[i].sock, BlocksUri>> \in subs'
              /\ aliveIntervals'[i].st = "cleared"
              /\ \E j \in Timers \ {i} :
                    /\ aliveIntervals[j].st # "armed"
                    /\ aliveIntervals'[j] = [st |-> "armed", sock |-> aliveIntervals[i].sock]
              /\ heightPulls' = heightPulls + 1
              /\ UNCHANGED <<nemHost, nemsocket_, sockState, settleTimers,
                             disconnects, picking>>]_vars

\* an interval was cancelled and another armed for the same auditor while no
\* switch was ever started
C24_Witness ==
    /\ settleTimers = 0
    /\ nemHost = InitialHost(nodeConf)
    /\ \A s \in Sockets : sockState[s] # "closed"
    /\ \E i, j \in Timers :
          /\ aliveIntervals[i].st = "cleared"
          /\ aliveIntervals[j].st = "armed"
          /\ aliveIntervals[j].sock = aliveIntervals[i].sock

\* C25: at most one switch is under way: between the staleness check that
\* starts a switch and the connectBlockchainSocket() that ends it, no other
\* check starts a switch
C25_SwitchesNeverOverlap == PendingSwitches <= 1

\* the monitor is SUBSCRIBED: no switch is under way and an interval is armed
\* for the auditor of the module's connected socket
Subscribed ==
    /\ PendingSwitches = 0
    /\ nemsocket_ # 0
    /\ sockState[nemsocket_] = "open"
    /\ \E i \in Timers : aliveIntervals[i] = [st |-> "armed", sock |-> nemsocket_]

\* C26: every entry into SWITCHING is followed by a return to SUBSCRIBED
C26_SwitchingReturnsToSubscribed == (settleTimers > 0) ~> Subscribed

\* hashes of the candidates whose announce was answered with a failure or a
\* neutral result, and for which no document is stored
FailedCandidates ==
    { TaskHash(t) : t \in { u \in TaskIds :
                              /\ tasks[u].pc = "done"
                              /\ tasks[u].out \in {"announceFailed", "neutral"}
                              /\ ~HasSignedTrx(TaskHash(u)) } }

\* C27: a pull cycle whose response holds a valid multisig transaction with a
\* failed or neutral announce behind it, and no ceiling in the way, passes
\* that transaction to the handler again
C27_FailedAnnounceRetriedByPoll ==
    [][\A unconfirmed \in UnconfirmedResponses :
          websocketFallbackHandler(unconfirmed) =>
              \A k \in 1..Len(unconfirmed) :
                  /\ IsMultisigPair(unconfirmed[k])
                  /\ verifyTransaction(unconfirmed[k])
                  /\ getTransactionHash(unconfirmed[k]) \in FailedCandidates
                  => \E t \in TaskIds : /\ tasks[t].pc = "idle"
                                        /\ tasks'[t].pc = "findOne"
                                        /\ tasks'[t].pair = unconfirmed[k]]_vars

\* C28: with an invalid private key the handler ends at signTransaction with
\* the exception caught: no announce call, no document, and the sockets, the
\* listeners, the intervals and the other invocations stay as they are
C28_InvalidKeyIsCaught ==
    [][\A t \in TaskIds, failed \in BOOLEAN :
          (~conf.privateKeyValid /\ AggregateCallback(t, failed)) =>
              /\ tasks'[t].pc = "done"
              /\ tasks'[t].out = "invalidKey"
              /\ \A u \in TaskIds \ {t} : tasks'[u] = tasks[u]
              /\ UNCHANGED <<announced, signedTrxs, socketVars, fallbackVars>>]_vars

\* two candidates in turn met the invalid key while the listener of the
\* push topic stayed subscribed
C28_Witness ==
    /\ ~conf.privateKeyValid
    /\ \A t \in TaskIds : tasks[t].pc = "done" /\ tasks[t].out = "invalidKey"
    /\ \E t, u \in TaskIds : TaskHash(t) # TaskHash(u)
    /\ \E s \in Sockets : <<s, UnconfirmedUri>> \in subs /\ sockState[s] = "open"
    /\ \A h \in Hashes : announced[h] = 0
    /\ signedTrxs = << >>

\* C29: a transaction that fails the verification (unlisted cosignatory, other
\* account) makes no call of signTransaction end with an exception
C29_RejectionNeverRaised ==
    (signCall.called /\ conf.privateKeyValid /\ ~verifyTransaction(signCall.pair))
        => signCall.threw = ""

\* C30: without a positive ceiling no invocation of the handler ends at one
\* of the two ceiling tests
C30_NoCeilingNeverRejects ==
    conf.dailyAmount <= 0 =>
        \A t \in TaskIds : tasks[t].out \notin {"limitReached", "limitPassed"}

\* with a negative dailyAmount two documents are stored, their total above it
C30_Witness ==
    /\ conf.dailyAmount < 0
    /\ Len(signedTrxs) = 2
    /\ NumGT(SumAmountXEM(signedTrxs), Zero)

\* C31: with a positive configured ceiling the total of amountXEM over the
\* stored signed-transaction documents never exceeds the ceiling, also when
\* two invocations for different hashes read the aggregate before either saves.
C31_StoredTotalWithinCeiling ==
    conf.dailyAmount > 0 =>
        ~NumGT(SumAmountXEM(signedTrxs), Num(conf.dailyAmount, 0))

\* C32: in every reachable state at most one staleness interval of
\* registerBlockDelayAuditor is armed, whatever connects, lost-connection
\* reconnects, resubscribes and endpoint switches happened.
C32_OneIntervalArmed == TimersArmed <= 1

\* the error branch of the staleness check of interval i calls
\* subscribeToBlockUpdates on a connected socket: subscribeWS registers a
\* /blocks/new listener
Resubscribes(i) ==
    /\ ReadAnswered(i)
    /\ sockState[aliveIntervals[i].sock] = "open"
    /\ staleReadCallback(i, TRUE, NoBlock)

\* C33: a resubscribe after a store read error never registers a /blocks/new
\* listener on a socket that already carries one.
C33_ResubscribeAddsNoSecondListener ==
    [][\A i \in Timers :
          Resubscribes(i) => <<aliveIntervals[i].sock, BlocksUri>> \notin subs]_vars

\* C34: when findOne of the idempotency check answers with an error, the
\* handler ends: the step makes no announce call and writes no document, and
\* an invocation that ended this way never announces or saves later.
C34_LookupErrorEndsHandler ==
    [][\A t \in TaskIds :
          /\ (tasks[t].pc = "findOne" /\ FindOneCallback(t, TRUE)) =>
                 /\ tasks'[t].pc = "done"
                 /\ tasks'[t].res = ""
                 /\ announced' = announced
                 /\ signedTrxs' = signedTrxs
          /\ tasks[t].out = "dbError" => tasks'[t] = tasks[t]]_vars

C34_Witness ==
    \E t \in TaskIds :
        /\ tasks[t].out = "dbError"
        /\ tasks[t].pc = "done"
        /\ ~HasSignedTrx(TaskHash(t))
        /\ announced[TaskHash(t)] = 0

\* C35: with a positive ceiling, an invocation whose aggregate read failed
\* makes no announce call; stated for a store whose total has reached the
\* ceiling, where a total taken as zero is told apart from the stored one.
C35_FailedAggregateNeverSigns ==
    [][\A t \in TaskIds :
          ( /\ tasks[t].pc = "aggregate"
            /\ conf.dailyAmount > 0
            /\ AtCeiling
            /\ AggregateCallback(t, TRUE) )
          => (announced' = announced /\ tasks'[t].pc = "done")]_vars

\* C36: subscribing to block updates terminates: the retry of the catch
\* block never nests calls of subscribeToBlockUpdates until the call stack
\* is exhausted.
C36_RetryNeverExhaustsStack == subscribing.depth < MaxStack

====
